---- MODULE Spec2Model ----
(***************************************************************************)
(* precompute.py: evaluation of VSOP87 series tables.                      *)
(*                                                                         *)
(* The module state is indata (the lines of every planet's input file, as  *)
(* readlines() returns them).  getPlanetPosition(planetName, jde) scans    *)
(* the lines of one planet, keeps the current (variable, degree) pair of   *)
(* the last header line, adds every data line's term to                    *)
(* sums[currentVar][currentTerm] and returns three polynomials in T.       *)
(* The driver loop at the end of the file calls it for jde = 0..jdeMax-1   *)
(* for every planet and writes one output line per call.                   *)
(*                                                                         *)
(* Lines are sequences of one-character strings, so that len(line),        *)
(* line[1], line.split() and the digit positions of a header are computed  *)
(* as the code computes them.  Python indices are 0-based: the Python      *)
(* element s[k] is the TLA+ element s[k+1].                                *)
(*                                                                         *)
(* Numbers.  The modelled data lines carry amplitudes that are decimal     *)
(* digits and phase = frequency = 0, so every term A*cos(0 + 0*T) is the   *)
(* integer A and every bucket sum is an integer, in IEEE doubles as well.  *)
(* T = (jde - 2451545) / 365250.0 is kept as the exact fraction.  A        *)
(* returned coordinate, the real number c0 + c1*T + ... , is kept in a     *)
(* normal form (see Real).                                                 *)
(***************************************************************************)
EXTENDS Integers, Sequences, FiniteSets, TLC

VARIABLES
    indata,       \* module state: indata[p] = the lines of planet p's file
    pc,           \* getPlanetPosition: "idle", "scan" (in the for loop), "raised"
    pI,           \* getPlanetPosition: index of the planet
    jde,          \* getPlanetPosition: the jde argument
    T,            \* getPlanetPosition: the time argument, a fraction
    sums,         \* getPlanetPosition: the 3 x 6 bucket sums
    currentVar,   \* getPlanetPosition: variable index of the last header
    currentTerm,  \* getPlanetPosition: degree index of the last header
    i,            \* getPlanetPosition: index of the next line of the for loop
    exc,          \* the exception that ended the program, or "none"
    pos,          \* the caller's pos: the last triple returned, or <<>>
    first,        \* history: the first call that returned, its triple and the indata then,
                  \*   whether another call returned since (others) and it returned again after that (again)
    dpc,          \* driver: "off" (not run), "next", "loop", "called", "done"
    planetI,      \* driver: the planet index i of the outer for loop
    loopJde,      \* driver: the jde of the inner for loop
    outfiles,     \* driver: outfiles[p] = the lines written to planet p's output file
    ncalls        \* history: ncalls[p][j] = number of calls of getPlanetPosition(p, j) by the driver

vars == <<indata, pc, pI, jde, T, sums, currentVar, currentTerm, i, exc, pos,
          first, dpc, planetI, loopJde, outfiles, ncalls>>

evalVars == <<pc, pI, jde, T, sums, currentVar, currentTerm, i, exc>>
driverVars == <<dpc, planetI, loopJde, outfiles, ncalls>>

(***************************************************************************)
(* Bounds of the model.                                                    *)
(***************************************************************************)
\* the number of planets of the lists infiles / planetNames that are modelled
NumPlanets == 2
\* the longest input file, in lines
MaxLines == 2
\* the evaluator is called at jde = 2451545 + k * 365250 for k in 0..MaxT
MaxT == 1
\* the driver's sweep jde = 0 .. jdeMax-1 (1e5 in the source, line 22)
jdeMax == 3

(***************************************************************************)
(* Program constants.                                                      *)
(***************************************************************************)
Epoch == 2451545
DaysPerMillennium == 365250
NumVars == 3
NumDegrees == 6

planetNamesAll ==
    <<"MERCURY", "VENUS", "EARTH", "MARS", "JUPITER", "SATURN", "URANUS", "NEPTUNE">>
planetNames == [k \in 0..(NumPlanets - 1) |-> planetNamesAll[k + 1]]
Planets == DOMAIN planetNames

\* planetNames.index(planetName)
index(name) == CHOOSE k \in Planets : planetNames[k] = name /\ \A m \in 0..(k - 1) : planetNames[m] # name

(***************************************************************************)
(* Python helpers: strings, lists, int() and float().                      *)
(***************************************************************************)
Digits == <<"0", "1", "2", "3", "4", "5", "6", "7", "8", "9">>
IsDigit(ch) == \E k \in 1..10 : Digits[k] = ch
DigitValue(ch) == (CHOOSE k \in 1..10 : Digits[k] = ch) - 1
IsSpace(ch) == ch \in {" ", "\n"}

\* s[k] for a Python list or string of length Len(s): a negative k counts from the end
PyIndex(n, k) == IF k < 0 THEN k + n ELSE k
HasIndex(n, k) == PyIndex(n, k) \in 0..(n - 1)
At(s, k) == s[PyIndex(Len(s), k) + 1]

\* line.split(): the maximal runs of non-whitespace characters
RECURSIVE SplitFrom(_, _, _, _)
SplitFrom(s, k, cur, acc) ==
    IF k > Len(s) THEN (IF cur = <<>> THEN acc ELSE Append(acc, cur))
    ELSE IF IsSpace(s[k]) THEN SplitFrom(s, k + 1, <<>>, IF cur = <<>> THEN acc ELSE Append(acc, cur))
    ELSE SplitFrom(s, k + 1, Append(cur, s[k]), acc)
split(s) == SplitFrom(s, 1, <<>>, <<>>)

\* l[-3:]
LastThree(l) == IF Len(l) <= 3 THEN l ELSE SubSeq(l, Len(l) - 2, Len(l))

\* float(tok) and int(tok) of an unsigned decimal numeral; any other token raises ValueError
IsNumeral(tok) == tok # <<>> /\ \A k \in 1..Len(tok) : IsDigit(tok[k])
RECURSIVE NumeralValue(_)
NumeralValue(tok) ==
    IF tok = <<>> THEN 0
    ELSE 10 * NumeralValue(SubSeq(tok, 1, Len(tok) - 1)) + DigitValue(tok[Len(tok)])

\* math.cos at the one argument whose cosine the model needs
cos(x) == CASE x = 0 -> 1

(***************************************************************************)
(* Exact fractions and returned coordinates.                               *)
(***************************************************************************)
Abs(x) == IF x < 0 THEN -x ELSE x
RECURSIVE Gcd(_, _)
Gcd(a, b) == IF b = 0 THEN a ELSE Gcd(b, a % b)
\* the fraction n/d (d > 0) in lowest terms
Frac(n, d) == LET g == Gcd(Abs(n), d) IN [num |-> n \div g, den |-> d \div g]
IsInt(q) == q.den = 1

RECURSIVE IntPow(_, _)
IntPow(b, e) == IF e = 0 THEN 1 ELSE b * IntPow(b, e - 1)

Degrees == 0..(NumDegrees - 1)
Vars == 0..(NumVars - 1)

\* the sum of c[d] * t^d over the degrees d <= top, for an integer t
RECURSIVE IntPoly(_, _, _)
IntPoly(c, t, top) ==
    IF top < 0 THEN 0 ELSE IntPoly(c, t, top - 1) + c[top] * IntPow(t, top)

(***************************************************************************)
(* Real(t, c): the real number  c[0] + c[1]*t + ... + c[5]*t^5  for a      *)
(* fraction t and integers c[d], in normal form.  For an integer t it is   *)
(* the constant polynomial holding the integer value.  For a t = p/q that  *)
(* is not an integer the coefficients are kept: by the rational root       *)
(* theorem two different coefficient vectors of entries smaller than |p|   *)
(* in absolute value denote different reals.  Two reals at the same t are  *)
(* equal exactly when their normal forms are.                              *)
(***************************************************************************)
Real(t, c) ==
    IF IsInt(t)
    THEN [at |-> t, coef |-> [d \in Degrees |-> IF d = 0 THEN IntPoly(c, t.num, NumDegrees - 1) ELSE 0]]
    ELSE [at |-> t, coef |-> c]

(***************************************************************************)
(* Input files.  A header line of a VSOP87 file reads                      *)
(*   " VSOP87 VERSION C1    EARTH     VARIABLE 1 (XYZ)       *T**0 ..."    *)
(* The modelled header keeps its shape with one-letter words: the second   *)
(* character is V, token 5 is the variable digit and token 7 is *T**d.     *)
(* A data line is " 7 A 0 0": a leading index token and then amplitude,    *)
(* phase and frequency.  A blank line holds only its terminator.           *)
(***************************************************************************)
HeaderText(v, d) ==
    <<" ", "V", " ", "R", " ", "C", " ", "E", " ", "A", " ", Digits[v + 1], " ", "X", " ",
      "*", "T", "*", "*", Digits[d + 1], "\n">>
DataText(a) == <<" ", "7", " ", Digits[a + 1], " ", "0", " ", "0", "\n">>
BlankText == <<"\n">>

RECURSIVE Concat(_)
Concat(ls) == IF ls = <<>> THEN <<>> ELSE Head(ls) \o Concat(Tail(ls))

\* file.readlines(): the text cut after every line terminator; a last line without one is kept
RECURSIVE ReadlinesFrom(_, _, _, _)
ReadlinesFrom(text, k, cur, acc) ==
    IF k > Len(text) THEN (IF cur = <<>> THEN acc ELSE Append(acc, cur))
    ELSE IF text[k] = "\n" THEN ReadlinesFrom(text, k + 1, <<>>, Append(acc, Append(cur, "\n")))
    ELSE ReadlinesFrom(text, k + 1, Append(cur, text[k]), acc)
readlines(text) == ReadlinesFrom(text, 1, <<>>, <<>>)
readfile(text) == readlines(text)

\* the files of n lines at most over a set of line texts
FileTexts(lineTexts, n) ==
    {Concat(ls) : ls \in UNION {[1..m -> lineTexts] : m \in 0..n}}

\* the headers and amplitudes of the modelled input lines (variable digit, degree digit)
InputHeaders == {<<1, 3>>, <<1, 5>>, <<0, 1>>, <<4, 0>>, <<2, 6>>}
InputAmplitudes == {2}
InputLines ==
    {HeaderText(h[1], h[2]) : h \in InputHeaders}
        \cup {DataText(a) : a \in InputAmplitudes} \cup {BlankText}
\* the file of every planet but the one under test
ReferenceFile == HeaderText(3, 1) \o DataText(2)

(***************************************************************************)
(* getPlanetPosition.                                                      *)
(***************************************************************************)
None == [none |-> TRUE]

\* the list literal of lines 73-77
ZeroSums == [v \in Vars |-> [d \in Degrees |-> 0]]

StaleSums == sums
\* lines 73-77: every call starts from new, zeroed sums
FreshSums == ZeroSums

WrongEpoch(j) == Frac(j - (Epoch - DaysPerMillennium), DaysPerMillennium)
\* line 80: T = (jde - 2451545) / 365250.0
TimeArg(j) == Frac(j - Epoch, DaysPerMillennium)

\* line 65
extractCoefficients(line) == LastThree(split(line))

\* lines 67-69: the term, or the exception float() or c[k] raises
computeTerm(line, t) ==
    LET c == extractCoefficients(line)
        Bad(k) == IF ~HasIndex(Len(c), k) THEN "IndexError"
                  ELSE IF ~IsNumeral(At(c, k)) THEN "ValueError" ELSE "none"
        f(k) == NumeralValue(At(c, k))
    IN  IF Bad(0) # "none" THEN [exc |-> Bad(0), value |-> 0]
        ELSE IF Bad(1) # "none" THEN [exc |-> Bad(1), value |-> 0]
        ELSE IF Bad(2) # "none" THEN [exc |-> Bad(2), value |-> 0]
        ELSE [exc |-> "none",
              value |-> f(0) * cos(Frac(f(1) * t.den + f(2) * t.num, t.den).num)]

Step(e, cv, ct, s) == [exc |-> e, currentVar |-> cv, currentTerm |-> ct, sums |-> s]

\* lines 86-89: a header line sets currentVar and then currentTerm
HeaderLine(line, cv, ct, s) ==
    LET sublines == split(line) IN
    IF ~HasIndex(Len(sublines), 5) THEN Step("IndexError", cv, ct, s)
    ELSE IF ~IsDigit(At(At(sublines, 5), 0)) THEN Step("ValueError", cv, ct, s)
    ELSE LET cv2 == DigitValue(At(At(sublines, 5), 0)) - 1 IN
         IF ~HasIndex(Len(sublines), 7) THEN Step("IndexError", cv2, ct, s)
         ELSE IF ~HasIndex(Len(At(sublines, 7)), 4) THEN Step("IndexError", cv2, ct, s)
         ELSE IF ~IsDigit(At(At(sublines, 7), 4)) THEN Step("ValueError", cv2, ct, s)
         ELSE Step("none", cv2, DigitValue(At(At(sublines, 7), 4)), s)

\* line 90: sums[currentVar][currentTerm] += computeTerm(line, T)
\* (the subscripts are read before computeTerm is called)
DataLine(line, t, cv, ct, s) ==
    IF ~HasIndex(NumVars, cv) THEN Step("IndexError", cv, ct, s)
    ELSE IF ~HasIndex(NumDegrees, ct) THEN Step("IndexError", cv, ct, s)
    ELSE LET term == computeTerm(line, t)
             v == PyIndex(NumVars, cv)
             d == PyIndex(NumDegrees, ct)
         IN  IF term.exc # "none" THEN Step(term.exc, cv, ct, s)
             ELSE Step("none", cv, ct, [s EXCEPT ![v][d] = @ + term.value])

\* lines 82-90: the body of the for loop for one line
LoopBody(line, t, cv, ct, s) ==
    IF Len(line) = 0 THEN Step("none", cv, ct, s)
    ELSE IF ~HasIndex(Len(line), 1) THEN Step("IndexError", cv, ct, s)
    ELSE IF At(line, 1) = "V" THEN HeaderLine(line, cv, ct, s)
    ELSE DataLine(line, t, cv, ct, s)

\* the highest power of T in the returned expressions (lines 93-98)
TopDegree == 4

\* lines 92-99: the returned list
Result(s, t) ==
    [v \in Vars |-> Real(t, [d \in Degrees |-> IF d <= TopDegree THEN s[v][d] ELSE 0])]

\* lines 71-80: the call, up to the for loop
Call(name, j) ==
    /\ pc = "idle"
    /\ pc' = "scan"
    /\ pI' = index(name)
    /\ jde' = j
    /\ sums' = FreshSums
    /\ currentVar' = 0
    /\ currentTerm' = 0
    /\ T' = TimeArg(j)
    /\ i' = 0
    /\ UNCHANGED <<indata, exc, first>>

\* lines 81-90: one iteration of the for loop; an exception ends the program
ScanLine ==
    /\ pc = "scan"
    /\ i < Len(indata[pI])
    /\ LET r == LoopBody(indata[pI][i + 1], T, currentVar, currentTerm, sums) IN
        /\ currentVar' = r.currentVar
        /\ currentTerm' = r.currentTerm
        /\ sums' = r.sums
        /\ exc' = r.exc
        /\ pc' = IF r.exc = "none" THEN "scan" ELSE "raised"
        /\ i' = IF r.exc = "none" THEN i + 1 ELSE i
    /\ UNCHANGED <<indata, pI, jde, T, pos, first>>
    /\ UNCHANGED driverVars

\* lines 92-99: the loop is over, the triple goes to the caller's pos
Return ==
    /\ pc = "scan"
    /\ i = Len(indata[pI])
    /\ pc' = "idle"
    /\ pos' = Result(sums, T)
    /\ first' = IF first = None
                THEN [planet |-> pI, jde |-> jde, pos |-> Result(sums, T), indata |-> indata,
                      others |-> FALSE, again |-> FALSE]
                ELSE IF pI = first.planet /\ jde = first.jde
                THEN [first EXCEPT !.again = @ \/ first.others]
                ELSE [first EXCEPT !.others = TRUE]
    /\ UNCHANGED <<indata, pI, jde, T, sums, currentVar, currentTerm, i, exc>>
    /\ UNCHANGED driverVars

(***************************************************************************)
(* The evaluator on its own: the module is loaded (lines 60-62) and        *)
(* getPlanetPosition is called any number of times.                        *)
(***************************************************************************)
EvalInputs == {Epoch + k * DaysPerMillennium : k \in 0..MaxT}

InitEval ==
    /\ pc = "idle"
    /\ pI = 0
    /\ jde = 0
    /\ T = TimeArg(Epoch)
    /\ sums = ZeroSums
    /\ currentVar = 0
    /\ currentTerm = 0
    /\ i = 0
    /\ exc = "none"
    /\ pos = <<>>
    /\ first = None

\* lines 60-62: one planet's file is any input file, the others hold the reference file
InitFiles ==
    \E p \in Planets : \E text \in FileTexts(InputLines, MaxLines) :
        indata = [q \in Planets |-> readfile(IF q = p THEN text ELSE ReferenceFile)]

Init ==
    /\ InitFiles
    /\ InitEval
    /\ dpc = "off"
    /\ planetI = 0
    /\ loopJde = 0
    /\ outfiles = [p \in Planets |-> <<>>]
    /\ ncalls = [p \in Planets |-> [j \in 0..(jdeMax - 1) |-> 0]]

\* a caller other than the driver
CallAny ==
    /\ dpc = "off"
    /\ \E p \in Planets : \E j \in EvalInputs : Call(planetNames[p], j)
    /\ pos' = <<>>
    /\ UNCHANGED driverVars

Next == CallAny \/ ScanLine \/ Return

Spec == Init /\ [][Next]_vars

(***************************************************************************)
(* The driver, lines 101-110.                                              *)
(***************************************************************************)
\* line 107: the first line of an output file
TitleLine(name) == [kind |-> "title", planet |-> name, upto |-> jdeMax + 1]

\* line 110: str() of a float is the shortest numeral that reads back as that float, so the
\* written line determines the triple; the line is kept as the triple
CoordLine(p) == [kind |-> "coords", values |-> <<p[0], p[1], p[2]>>]

RangeStartOne == 0 + 1
\* line 108: range(int(jdeMax)) starts at 0
RangeStart == 0

InitDriver ==
    /\ InitFiles
    /\ InitEval
    /\ dpc = "next"
    /\ planetI = 0
    /\ loopJde = 0
    /\ outfiles = [p \in Planets |-> <<>>]
    /\ ncalls = [p \in Planets |-> [j \in 0..(jdeMax - 1) |-> 0]]

\* lines 101-107: the next planet's output file is opened and its title written
DriverOpen ==
    /\ dpc = "next"
    /\ planetI < NumPlanets
    /\ outfiles' = [outfiles EXCEPT ![planetI] = <<TitleLine(planetNames[planetI])>>]
    /\ loopJde' = RangeStart
    /\ dpc' = "loop"
    /\ UNCHANGED <<indata, pos, first, planetI, ncalls>>
    /\ UNCHANGED evalVars

\* lines 108-109: pos = getPlanetPosition(planetName, jde), the call
DriverCall ==
    /\ dpc = "loop"
    /\ loopJde < jdeMax
    /\ Call(planetNames[planetI], loopJde)
    /\ ncalls' = [ncalls EXCEPT ![planetI][loopJde] = @ + 1]
    /\ dpc' = "called"
    /\ UNCHANGED <<pos, planetI, loopJde, outfiles>>

\* line 110: the returned triple is written and the loop goes on
DriverWrite ==
    /\ dpc = "called"
    /\ pc = "idle"
    /\ outfiles' = [outfiles EXCEPT ![planetI] = Append(@, CoordLine(pos))]
    /\ loopJde' = loopJde + 1
    /\ dpc' = "loop"
    /\ UNCHANGED <<indata, pos, first, planetI, ncalls>>
    /\ UNCHANGED evalVars

\* line 108, 101: the inner loop is over, the file is closed, the outer loop goes on
DriverClose ==
    /\ dpc = "loop"
    /\ loopJde >= jdeMax
    /\ planetI' = planetI + 1
    /\ dpc' = "next"
    /\ UNCHANGED <<indata, pos, first, loopJde, outfiles, ncalls>>
    /\ UNCHANGED evalVars

\* line 101: the outer loop is over
DriverEnd ==
    /\ dpc = "next"
    /\ planetI >= NumPlanets
    /\ dpc' = "done"
    /\ UNCHANGED <<indata, pos, first, planetI, loopJde, outfiles, ncalls>>
    /\ UNCHANGED evalVars

NextDriver ==
    DriverOpen \/ DriverCall \/ ScanLine \/ Return \/ DriverWrite \/ DriverClose \/ DriverEnd

SpecDriver == InitDriver /\ [][NextDriver]_vars

(***************************************************************************)
(* getPlanetPosition as a function of the lines and jde: the for loop run  *)
(* to its end or to the first exception.                                   *)
(***************************************************************************)
RECURSIVE RunLoop(_, _, _, _)
RunLoop(lines, k, t, st) ==
    IF st.exc # "none" \/ k > Len(lines) THEN st
    ELSE RunLoop(lines, k + 1, t, LoopBody(lines[k], t, st.currentVar, st.currentTerm, st.sums))

evaluate(lines, j) ==
    LET st == RunLoop(lines, 1, TimeArg(j), Step("none", 0, 0, ZeroSums))
    IN  IF st.exc = "none" THEN Result(st.sums, TimeArg(j)) ELSE None

(***************************************************************************)
(* The kinds of input lines, as the file format names them.                *)
(***************************************************************************)
IsBlankLine(line) == line = BlankText
IsHeaderLine(line) == HasIndex(Len(line), 1) /\ At(line, 1) = "V"
IsDataLine(line) == ~IsBlankLine(line) /\ ~IsHeaderLine(line)
\* the variable number and the degree digit a header line declares
HeaderVarNumber(line) == DigitValue(At(At(split(line), 5), 0))
HeaderDegree(line) == DigitValue(At(At(split(line), 7), 4))
\* the position (from 1) of the last header among the first k lines, or 0
LastHeader(lines, k) ==
    LET hs == {m \in 1..k : IsHeaderLine(lines[m])}
    IN  IF hs = {} THEN 0 ELSE CHOOSE m \in hs : \A n \in hs : n <= m

\* the last call has returned its triple to the caller
Returned == pc = "idle" /\ pos # <<>>
\* the for loop is about to process a line
AtLine == pc = "scan" /\ i < Len(indata[pI])
NextLine == indata[pI][i + 1]

(***************************************************************************)
(* C1.  The returned value of every variable v is the sum over all the     *)
(* degrees d = 0..5 of sums[v][d] * T^d.                                   *)
(***************************************************************************)
C1_ResultSumsAllDegrees ==
    Returned => \A v \in Vars : pos[v] = Real(T, sums[v])

(***************************************************************************)
(* C2.  When the first non-blank line of the input is a data line, no      *)
(* bucket receives a term and no triple is returned.                       *)
(***************************************************************************)
FirstNonBlankIsData(lines) ==
    \E k \in 1..Len(lines) :
        IsDataLine(lines[k]) /\ \A m \in 1..(k - 1) : IsBlankLine(lines[m])

C2_DataBeforeHeaderFails ==
    FirstNonBlankIsData(indata[pI]) => (sums = ZeroSums /\ ~Returned)

(***************************************************************************)
(* C3.  In the line scan a header line adds no term to any bucket, and a   *)
(* data line that follows a header changes the bucket (variable number - 1,*)
(* degree digit) of the last header and no other bucket.                   *)
(***************************************************************************)
C3_AccumulatesIntoDeclaredBucket ==
    [][(AtLine /\ pc' = "scan")
        => LET h == LastHeader(indata[pI], i) IN
           IF IsHeaderLine(NextLine) THEN sums' = sums
           ELSE IF IsDataLine(NextLine) /\ h > 0
           THEN \A v \in Vars : \A d \in Degrees :
                    (sums'[v][d] # sums[v][d])
                        <=> (v = HeaderVarNumber(indata[pI][h]) - 1 /\ d = HeaderDegree(indata[pI][h]))
           ELSE TRUE]_vars

(***************************************************************************)
(* C4.  A blank line (a line holding only its terminator) is skipped: the  *)
(* scan goes on to the next line with currentVar, currentTerm and every    *)
(* bucket sum unchanged, and nothing is raised.                            *)
(***************************************************************************)
C4_BlankLinesSkipped ==
    [][(AtLine /\ IsBlankLine(NextLine))
        => (pc' = "scan" /\ i' = i + 1 /\ exc' = "none"
            /\ UNCHANGED <<currentVar, currentTerm, sums>>)]_vars

(***************************************************************************)
(* C5.  An input with a header whose degree digit is 6..9 returns no       *)
(* triple, whether or not a data line follows that header, and a data line *)
(* under such a header changes no bucket.                                  *)
(***************************************************************************)
HasOutOfRangeDegree(lines) ==
    \E k \in 1..Len(lines) : IsHeaderLine(lines[k]) /\ HeaderDegree(lines[k]) >= NumDegrees

C5_OutOfRangeDegreeFails ==
    LET h == LastHeader(indata[pI], i) IN
    /\ HasOutOfRangeDegree(indata[pI]) => ~Returned
    /\ (pc \in {"scan", "raised"} /\ h > 0 /\ HeaderDegree(indata[pI][h]) >= NumDegrees)
        => sums = RunLoop(SubSeq(indata[pI], 1, h), 1, T, Step("none", 0, 0, ZeroSums)).sums

(***************************************************************************)
(* C6.  getPlanetPosition is a function of the loaded table and jde: it    *)
(* leaves indata as it was, and a call with the planet and jde of an       *)
(* earlier call returns the triple that call returned, whatever calls were *)
(* made in between.                                                        *)
(***************************************************************************)
C6_EvaluatorIsPure ==
    first # None =>
        /\ indata = first.indata
        /\ (Returned /\ pI = first.planet /\ jde = first.jde) => pos = first.pos

C6_Witness ==
    /\ first # None
    /\ first.again
    /\ Returned /\ pI = first.planet /\ jde = first.jde
    /\ \E v \in Vars : \E d \in Degrees : sums[v][d] # 0

(***************************************************************************)
(* C7.  For every planet the driver writes the title line and then one     *)
(* coordinate line per jde, for jde = 0, 1, ..., jdeMax-1 in this order:   *)
(* the k-th coordinate line holds the triple evaluated at jde = k, the     *)
(* evaluator is called once for every jde that has its line (or is being   *)
(* evaluated) and never for another, and a finished planet has all         *)
(* jdeMax lines.                                                           *)
(***************************************************************************)
C7_DriverWritesInOrder ==
    \A p \in Planets :
        LET f == outfiles[p]
            n == Len(f) - 1
            Called(j) == f # <<>> /\ (j < n \/ (j = n /\ p = planetI /\ dpc = "called"))
        IN  /\ (p > planetI \/ (p = planetI /\ dpc = "next")) => f = <<>>
            /\ f # <<>> => f[1] = TitleLine(planetNames[p])
            /\ n <= jdeMax
            /\ \A k \in 0..(n - 1) :
                   /\ evaluate(indata[p], k) # None
                   /\ f[k + 2] = CoordLine(evaluate(indata[p], k))
            /\ \A j \in 0..(jdeMax - 1) : ncalls[p][j] = IF Called(j) THEN 1 ELSE 0
            /\ p < planetI => n = jdeMax

C7_Witness ==
    /\ dpc = "done"
    /\ \A p \in Planets : Len(outfiles[p]) = jdeMax + 1
    /\ \E p \in Planets : outfiles[p][2] # outfiles[p][3]

(***************************************************************************)
(* C8.  At jde = 2451545 the time argument is exactly 0 and the returned   *)
(* value of every variable is its degree-0 bucket sum alone.               *)
(***************************************************************************)
C8_EpochGivesDegreeZeroSums ==
    (Returned /\ jde = Epoch) =>
        /\ T = [num |-> 0, den |-> 1]
        /\ \A v \in Vars :
               pos[v] = [at |-> T, coef |-> [d \in Degrees |-> IF d = 0 THEN sums[v][0] ELSE 0]]

C8_Witness ==
    /\ Returned
    /\ jde = Epoch
    /\ \E v \in Vars : \E d \in 1..TopDegree : sums[v][d] # 0

(***************************************************************************)
(* C9.  With well-formed tables (the first line is a header, every header  *)
(* has a variable number in 1..3 and a degree digit in 0..5, every data    *)
(* line ends in three numerals) the sweep raises nothing and, once over,   *)
(* has produced one triple per jde.                                        *)
(***************************************************************************)
WellFormed(lines) ==
    /\ lines # <<>>
    /\ IsHeaderLine(lines[1])
    /\ \A k \in 1..Len(lines) :
          /\ IsHeaderLine(lines[k]) =>
                /\ HeaderVarNumber(lines[k]) \in 1..NumVars
                /\ HeaderDegree(lines[k]) \in Degrees
          /\ IsDataLine(lines[k]) => computeTerm(lines[k], TimeArg(Epoch)).exc = "none"

C9_WellFormedSweepCompletes ==
    (\A p \in Planets : WellFormed(indata[p])) =>
        /\ exc = "none"
        /\ dpc = "done" => \A p \in Planets : Len(outfiles[p]) = jdeMax + 1

(***************************************************************************)
(* C10.  A data line under a header whose variable number is not in 1..3   *)
(* adds no term to any bucket: the evaluation fails at that line.          *)
(***************************************************************************)
C10_OutOfRangeVariableFails ==
    [][(AtLine /\ IsDataLine(NextLine) /\ LastHeader(indata[pI], i) > 0
            /\ HeaderVarNumber(indata[pI][LastHeader(indata[pI], i)]) \notin 1..NumVars)
        => (pc' = "raised" /\ sums' = sums)]_vars

====
